---------------------------- MODULE Spec2Model ----------------------------
(***************************************************************************)
(* A model of LiteNet.py: the Gaussian kernel, the feature networks and    *)
(* the KernelNetModel / KernelNetMSD objects built on them.                *)
(*                                                                         *)
(* Numbers.  A float is modelled exactly (rounding is left out): a scalar  *)
(* is a finite formal sum  SUM_q c_q * exp(q)  with rational exponents q   *)
(* and rational coefficients c_q, written as the function q |-> c_q over   *)
(* the exponents whose coefficient is not zero.  exp of distinct rationals *)
(* are linearly independent over the rationals, so two such sums are equal *)
(* as functions exactly when they are equal as real numbers.  A rational   *)
(* is a pair <<n, d>> in lowest terms with d > 0.                          *)
(*                                                                         *)
(* Tensors.  A tensor is [shape |-> s, at |-> f] with s the sequence of    *)
(* dimension sizes and f the entries by index tuple (indices from 1).  A   *)
(* Python exception is the value [err |-> name], which every tensor        *)
(* operation passes on.                                                    *)
(***************************************************************************)
EXTENDS Integers, Sequences, FiniteSets, TLC

\* ------------------------------------------------------------ rationals

Abs(n) == IF n < 0 THEN -n ELSE n

RECURSIVE GCD(_, _)
GCD(a, b) == IF b = 0 THEN a ELSE GCD(b, a % b)

RNorm(n, d) ==
    LET g == GCD(Abs(n), Abs(d))
        s == IF d < 0 THEN -1 ELSE 1
    IN  <<(s * n) \div g, (s * d) \div g>>

RInt(n) == <<n, 1>>
R0 == RInt(0)
R1 == RInt(1)
RHalf == RNorm(1, 2)
RAdd(a, b) == RNorm(a[1] * b[2] + b[1] * a[2], a[2] * b[2])
RNeg(a) == <<-a[1], a[2]>>
RSub(a, b) == RAdd(a, RNeg(b))
RMul(a, b) == RNorm(a[1] * b[1], a[2] * b[2])
RInv(a) == RNorm(a[2], a[1])
RDiv(a, b) == RMul(a, RInv(b))

\* --------------------------------------------------- scalars (exp sums)

EZero == [q \in {} |-> R0]
EConst(r) == [q \in (IF r = R0 THEN {} ELSE {R0}) |-> r]
EInt(n) == EConst(RInt(n))
ECoef(a, q) == IF q \in DOMAIN a THEN a[q] ELSE R0
\* the rational value of a scalar that holds no exponential
EVal(a) == ECoef(a, R0)

EAdd(a, b) ==
    LET ks == DOMAIN a \cup DOMAIN b
        c == [q \in ks |-> RAdd(ECoef(a, q), ECoef(b, q))]
    IN  [q \in {k \in ks : c[k] # R0} |-> c[q]]

EScale(r, a) == [q \in (IF r = R0 THEN {} ELSE DOMAIN a) |-> RMul(r, a[q])]
ENeg(a) == EScale(RInt(-1), a)
ESub(a, b) == EAdd(a, ENeg(b))

RECURSIVE RSumOver(_, _)
\* the sum of f[x] over the x of S
RSumOver(S, f) ==
    IF S = {} THEN R0
    ELSE LET x == CHOOSE y \in S : TRUE
         IN  RAdd(f[x], RSumOver(S \ {x}, f))

EMul(a, b) ==
    LET ks == {RAdd(p, q) : p \in DOMAIN a, q \in DOMAIN b}
        c == [k \in ks |->
                LET ps == {p \in DOMAIN a : RSub(k, p) \in DOMAIN b}
                IN  RSumOver(ps, [p \in ps |-> RMul(a[p], b[RSub(k, p)])])]
    IN  [q \in {k \in ks : c[k] # R0} |-> c[q]]

\* tf.exp of a scalar that holds no exponential
EExp(a) == [q \in {EVal(a)} |-> R1]

RECURSIVE ESumOver(_, _)
ESumOver(S, f) ==
    IF S = {} THEN EZero
    ELSE LET x == CHOOSE y \in S : TRUE
         IN  EAdd(f[x], ESumOver(S \ {x}, f))

\* -------------------------------------------------------------- tensors

\* Python's None, an attribute that was never assigned, a raised exception
None == [none |-> TRUE]
NoX == [kind |-> "unset"]
Err(name) == [err |-> name]
IsErr(t) == "err" \in DOMAIN t

RECURSIVE IdxSet(_)
\* the index tuples of a tensor of shape s
IdxSet(s) ==
    IF Len(s) = 0 THEN {<<>>}
    ELSE {Append(i, k) : i \in IdxSet(SubSeq(s, 1, Len(s) - 1)), k \in 1..s[Len(s)]}

\* a tensor holds its entries, computed once
Entries(f) == CHOOSE g \in {f} : g = g
Tensor(s, f) == [shape |-> s, at |-> Entries(f)]
Rank(t) == Len(t.shape)
Scalar(e) == Tensor(<<>>, [i \in {<<>>} |-> e])


Max(a, b) == IF a >= b THEN a ELSE b

\* shape s padded on the left with 1s to rank n (numpy broadcasting)
PadL(s, n) == [k \in 1..n |-> IF k <= n - Len(s) THEN 1 ELSE s[k - (n - Len(s))]]

BOk(a, b) ==
    LET n == Max(Len(a), Len(b))
    IN  \A k \in 1..n : PadL(a, n)[k] = PadL(b, n)[k] \/ PadL(a, n)[k] = 1 \/ PadL(b, n)[k] = 1

BShape(a, b) ==
    LET n == Max(Len(a), Len(b))
    IN  [k \in 1..n |-> Max(PadL(a, n)[k], PadL(b, n)[k])]

\* the index into a tensor of shape s that output index i (of a broadcast) reads
BIdx(i, s) ==
    [k \in 1..Len(s) |-> IF s[k] = 1 THEN 1 ELSE i[k + (Len(i) - Len(s))]]

\* Arguments are taken by value: Let(v, F) is F(v) with v evaluated once.
Let(v, F(_)) == CHOOSE r \in {F(x) : x \in {v}} : TRUE

\* an elementwise binary operation with broadcasting
TBinV(Op(_, _), A, B) ==
    IF IsErr(A) THEN A
    ELSE IF IsErr(B) THEN B
    ELSE IF ~BOk(A.shape, B.shape) THEN Err("ValueError")
    ELSE LET s == BShape(A.shape, B.shape)
         IN  Tensor(s, [i \in IdxSet(s) |-> Op(A.at[BIdx(i, A.shape)], B.at[BIdx(i, B.shape)])])

TBin(Op(_, _), A, B) == CHOOSE r \in {TBinV(Op, a, b) : a \in {A}, b \in {B}} : TRUE

TAdd(A, B) == TBin(EAdd, A, B)
TSub(A, B) == TBin(ESub, A, B)
TMul(A, B) == TBin(EMul, A, B)

TMapV(Op(_), A) ==
    IF IsErr(A) THEN A ELSE Tensor(A.shape, [i \in IdxSet(A.shape) |-> Op(A.at[i])])
TMap(Op(_), A) == CHOOSE r \in {TMapV(Op, a) : a \in {A}} : TRUE

\* tensor * r and tensor / r for a Python number r
TScaleV(r, A) ==
    IF IsErr(A) THEN A ELSE Tensor(A.shape, [i \in IdxSet(A.shape) |-> EScale(r, A.at[i])])
TScale(r, A) == CHOOSE t \in {TScaleV(q, a) : q \in {r}, a \in {A}} : TRUE
TNeg(A) == TScale(RInt(-1), A)
TSquare(A) == Let(A, LAMBDA a : TMul(a, a))
TExp(A) == TMap(EExp, A)

\* tf.expand_dims(A, axis), A[None, ...] and A[..., None]: axis counts from 0,
\* and -1 means after the last
ExpandDimsV(A, axis) ==
    IF IsErr(A) THEN A
    ELSE LET p == IF axis < 0 THEN Rank(A) + 1 ELSE axis + 1
             s == [k \in 1..(Rank(A) + 1) |->
                     IF k < p THEN A.shape[k] ELSE IF k = p THEN 1 ELSE A.shape[k - 1]]
         IN  Tensor(s, [i \in IdxSet(s) |->
                 A.at[[k \in 1..Rank(A) |-> IF k < p THEN i[k] ELSE i[k + 1]]]])
ExpandDims(A, axis) == CHOOSE r \in {ExpandDimsV(a0, axis0) : a0 \in {A}, axis0 \in {axis}} : TRUE

\* tf.reduce_sum(A, axis, keep_dims): axis counts from 0, -1 is the last
ReduceSumV(A, axis, keep) ==
    IF IsErr(A) THEN A
    ELSE LET p == IF axis < 0 THEN Rank(A) + 1 + axis ELSE axis + 1
             n == A.shape[p]
             s == IF keep THEN [A.shape EXCEPT ![p] = 1]
                  ELSE [k \in 1..(Rank(A) - 1) |-> IF k < p THEN A.shape[k] ELSE A.shape[k + 1]]
             src(i, j) == IF keep THEN [i EXCEPT ![p] = j]
                          ELSE [k \in 1..Rank(A) |->
                                  IF k < p THEN i[k] ELSE IF k = p THEN j ELSE i[k - 1]]
         IN  Tensor(s, [i \in IdxSet(s) |->
                 ESumOver(1..n, [j \in 1..n |-> A.at[src(i, j)]])])
ReduceSum(A, axis, keep) == CHOOSE r \in {ReduceSumV(a0, axis0, keep0) : a0 \in {A}, axis0 \in {axis}, keep0 \in {keep}} : TRUE

\* tf.reduce_sum(A): the sum of all entries
ReduceSumAllV(A) ==
    IF IsErr(A) THEN A
    ELSE Scalar(ESumOver(IdxSet(A.shape), A.at))
ReduceSumAll(A) == CHOOSE r \in {ReduceSumAllV(a0) : a0 \in {A}} : TRUE

\* tf.matmul(A, B, transpose_b = True) of two matrices
MatMulTBV(A, B) ==
    IF IsErr(A) THEN A
    ELSE IF IsErr(B) THEN B
    ELSE IF Rank(A) # 2 \/ Rank(B) # 2 THEN Err("ValueError")
    ELSE IF A.shape[2] # B.shape[2] THEN Err("ValueError")
    ELSE LET s == <<A.shape[1], B.shape[1]>>
             d == A.shape[2]
         IN  Tensor(s, [i \in IdxSet(s) |->
                 ESumOver(1..d, [k \in 1..d |-> EMul(A.at[<<i[1], k>>], B.at[<<i[2], k>>])])])
MatMulTB(A, B) == CHOOSE r \in {MatMulTBV(a0, b0) : a0 \in {A}, b0 \in {B}} : TRUE

\* tf.transpose(A, perm): perm counts from 0
TransposeV(A, perm) ==
    IF IsErr(A) THEN A
    ELSE IF Len(perm) # Rank(A) THEN Err("ValueError")
    ELSE LET s == [k \in 1..Rank(A) |-> A.shape[perm[k] + 1]]
             inv(i) == [k \in 1..Rank(A) |->
                          i[CHOOSE j \in 1..Rank(A) : perm[j] + 1 = k]]
         IN  Tensor(s, [i \in IdxSet(s) |-> A.at[inv(i)]])
Transpose(A, perm) == CHOOSE r \in {TransposeV(a0, perm0) : a0 \in {A}, perm0 \in {perm}} : TRUE

\* tf.matrix_transpose of a matrix
MatrixTranspose(A) == IF IsErr(A) THEN A ELSE Transpose(A, <<1, 0>>)

\* tf.eye(n)
Eye(n) == Tensor(<<n, n>>, [i \in IdxSet(<<n, n>>) |-> IF i[1] = i[2] THEN EInt(1) ELSE EZero])

\* tf.zeros of a shape
Zeros(s) == Tensor(s, [i \in IdxSet(s) |-> EZero])

RECURSIVE EProdSeq(_)
EProdSeq(es) == IF Len(es) = 0 THEN EInt(1) ELSE EMul(es[1], EProdSeq(Tail(es)))

Range(f) == {f[x] : x \in DOMAIN f}

\* the largest axis size of an einsum
EinsumBig(size) ==
    IF DOMAIN size = {} THEN 1 ELSE CHOOSE n \in Range(size) : \A m \in Range(size) : m <= n

\* tf.einsum(labs[1] , ... -> out, ins[1], ...): labs[k] and out are sequences
\* of axis labels.  A label keeps one size over all its uses; a label that is
\* not in out is summed over.
EinsumV(ins, labs, out) ==
    IF \E k \in 1..Len(ins) : IsErr(ins[k])
      THEN ins[CHOOSE k \in 1..Len(ins) : IsErr(ins[k])]
    ELSE IF \E k \in 1..Len(ins) : Len(labs[k]) # Rank(ins[k]) THEN Err("ValueError")
    ELSE LET all == UNION {Range(labs[k]) : k \in 1..Len(ins)}
             sizes(l) == UNION {{ins[k].shape[p] : p \in {q \in 1..Len(labs[k]) : labs[k][q] = l}} :
                                  k \in 1..Len(ins)}
         IN  IF \E l \in all : Cardinality(sizes(l)) # 1 THEN Err("ValueError")
             ELSE IF ~(Range(out) \subseteq all) THEN Err("ValueError")
             ELSE
               Let([l \in all |-> CHOOSE n \in sizes(l) : TRUE], LAMBDA size :
               Let(all \ Range(out), LAMBDA summed :
               Let({g \in [summed -> 1..EinsumBig(size)] : \A l \in summed : g[l] <= size[l]},
                   LAMBDA assigns :
               Let([l \in Range(out) |-> CHOOSE k \in 1..Len(out) : out[k] = l], LAMBDA pos :
               Let([k \in 1..Len(out) |-> size[out[k]]], LAMBDA s :
                 LET val(l, i, g) == IF l \in summed THEN g[l] ELSE i[pos[l]]
                     term(i, g) == EProdSeq([k \in 1..Len(ins) |->
                                      ins[k].at[[p \in 1..Len(labs[k]) |-> val(labs[k][p], i, g)]]])
                 IN  Tensor(s, [i \in IdxSet(s) |->
                         ESumOver(assigns, [g \in assigns |-> term(i, g)])]))))))
Einsum(ins, labs, out) == CHOOSE r \in {EinsumV(ins0, labs0, out0) : ins0 \in {ins}, labs0 \in {labs}, out0 \in {out}} : TRUE

\* ------------------------------------------------------- GaussianKernel

\* the first Python exception of a sequence of results, in evaluation order
FirstErr(ts) == ts[CHOOSE k \in 1..Len(ts) : IsErr(ts[k]) /\ \A j \in 1..(k - 1) : ~IsErr(ts[j])]
AnyErr(ts) == \E k \in 1..Len(ts) : IsErr(ts[k])

\* X[None, :] when X.shape.ndims == 1
AsRows(X) == IF IsErr(X) THEN X ELSE IF Rank(X) = 1 THEN ExpandDims(X, 0) ELSE X

\* a get_pdist2 that takes the differences directly and checks nothing
get_pdist2_broadcast(X, Y) ==
    ReduceSum(TSquare(TSub(ExpandDims(AsRows(X), 1), ExpandDims(AsRows(Y), 0))), -1, FALSE)

get_pdist2(X, Y) ==
    Let(AsRows(X), LAMBDA X1 :
    Let(AsRows(Y), LAMBDA Y1 :
      IF AnyErr(<<X1, Y1>>) THEN FirstErr(<<X1, Y1>>)
      ELSE IF X1.shape[2] # Y1.shape[2] THEN Err("AssertionError")
      ELSE Let(ReduceSum(TSquare(X1), 1, TRUE), LAMBDA p1 :
           Let(TSub(p1, TScale(RInt(2), MatMulTB(X1, Y1))), LAMBDA p2 :
             TAdd(p2, MatrixTranspose(ReduceSum(TSquare(Y1), 1, TRUE)))))))

\* what self.pdist2 holds after a call of get_pdist2(X, Y)
pdist2_after(old, X, Y) ==
    Let(get_pdist2(X, Y), LAMBDA p : IF IsErr(p) THEN old ELSE p)

get_gram_matrix(sigma, X, Y) ==
    Let(get_pdist2(X, Y), LAMBDA pdist2 :
      IF IsErr(pdist2) THEN pdist2
      ELSE IF sigma = R0 THEN Err("ZeroDivisionError")
      ELSE TExp(TScale(RDiv(RNeg(RHalf), sigma), pdist2)))

\* (tf.expand_dims(X, 1) - tf.expand_dims(Y, 0)) / self.sigma
scaled_diff(sigma, X, Y) ==
    \* with sigma = 0 the gram before this line has raised
    IF sigma = R0 THEN Err("ZeroDivisionError")
    ELSE TScale(RInv(sigma), TSub(ExpandDims(X, 1), ExpandDims(Y, 0)))

get_grad_gram(sigma, X, Y) ==
    Let(get_gram_matrix(sigma, X, Y), LAMBDA g0 :
    Let(ExpandDims(g0, 2), LAMBDA gram :
    Let(scaled_diff(sigma, X, Y), LAMBDA D :
    Let(TMul(gram, D), LAMBDA K :
      IF AnyErr(<<g0, D, K>>) THEN FirstErr(<<g0, D, K>>)
      ELSE [K |-> K, gram |-> gram]))))

get_grad(sigma, X, Y) ==
    Let(get_grad_gram(sigma, X, Y), LAMBDA r : IF IsErr(r) THEN r ELSE r.K)

\* tf.einsum('ijk,ijl->ijkl', D, D)
outer_diff(D) == Einsum(<<D, D>>, <<<<"i", "j", "k">>, <<"i", "j", "l">>>>, <<"i", "j", "k", "l">>)

\* tf.eye(D.shape[-1].value) / self.sigma
scaled_eye(sigma, D) == IF IsErr(D) THEN D ELSE TScale(RInv(sigma), Eye(D.shape[Rank(D)]))

\* a get_two_grad_cross_hess whose third tensor has the Hessian's sign
get_two_grad_cross_hess_as_hess(sigma, X, Y) ==
    Let(get_gram_matrix(sigma, X, Y), LAMBDA gram :
    Let(scaled_diff(sigma, X, Y), LAMBDA D :
    Let(TMul(ExpandDims(gram, 2), D), LAMBDA K2 :
    Let(TNeg(K2), LAMBDA K1 :
    Let(outer_diff(D), LAMBDA D2 :
    Let(scaled_eye(sigma, D), LAMBDA I :
    Let(TMul(ExpandDims(ExpandDims(gram, 2), 3), TSub(D2, I)), LAMBDA K3 :
      IF AnyErr(<<gram, D, K2, K1, D2, I, K3>>) THEN FirstErr(<<gram, D, K2, K1, D2, I, K3>>)
      ELSE [K1 |-> K1, K2 |-> K2, K3 |-> K3, gram |-> gram])))))))

get_hess(sigma, X, Y) ==
    Let(get_gram_matrix(sigma, X, Y), LAMBDA g0 :
    Let(ExpandDims(ExpandDims(g0, 2), 3), LAMBDA gram :
    Let(scaled_diff(sigma, X, Y), LAMBDA D :
    Let(outer_diff(D), LAMBDA D2 :
    Let(scaled_eye(sigma, D), LAMBDA I :
    Let(TMul(gram, TSub(D2, I)), LAMBDA K :
      IF AnyErr(<<g0, D, D2, I, K>>) THEN FirstErr(<<g0, D, D2, I, K>>)
      ELSE K))))))

\* a get_grad_hess whose second derivative adds the identity term
get_grad_hess_plus(sigma, X, Y) ==
    Let(get_gram_matrix(sigma, X, Y), LAMBDA gram :
    Let(scaled_diff(sigma, X, Y), LAMBDA D :
    Let(TMul(ExpandDims(gram, 2), D), LAMBDA K1 :
    Let(outer_diff(D), LAMBDA D2 :
    Let(scaled_eye(sigma, D), LAMBDA I :
    Let(TMul(ExpandDims(ExpandDims(gram, 2), 3), TAdd(D2, I)), LAMBDA K2 :
      IF AnyErr(<<gram, D, K1, D2, I, K2>>) THEN FirstErr(<<gram, D, K1, D2, I, K2>>)
      ELSE [K1 |-> K1, K2 |-> K2]))))))

get_grad_hess(sigma, X, Y) ==
    Let(get_gram_matrix(sigma, X, Y), LAMBDA gram :
    Let(scaled_diff(sigma, X, Y), LAMBDA D :
    Let(TMul(ExpandDims(gram, 2), D), LAMBDA K1 :
    Let(outer_diff(D), LAMBDA D2 :
    Let(scaled_eye(sigma, D), LAMBDA I :
    Let(TMul(ExpandDims(ExpandDims(gram, 2), 3), TSub(D2, I)), LAMBDA K2 :
      IF AnyErr(<<gram, D, K1, D2, I, K2>>) THEN FirstErr(<<gram, D, K1, D2, I, K2>>)
      ELSE [K1 |-> K1, K2 |-> K2]))))))

get_two_grad_cross_hess(sigma, X, Y) ==
    Let(get_gram_matrix(sigma, X, Y), LAMBDA gram :
    Let(scaled_diff(sigma, X, Y), LAMBDA D :
    Let(TMul(ExpandDims(gram, 2), D), LAMBDA K2 :
    Let(TNeg(K2), LAMBDA K1 :
    Let(outer_diff(D), LAMBDA D2 :
    Let(scaled_eye(sigma, D), LAMBDA I :
    Let(TMul(ExpandDims(ExpandDims(gram, 2), 3), TSub(I, D2)), LAMBDA K3 :
      IF AnyErr(<<gram, D, K2, K1, D2, I, K3>>) THEN FirstErr(<<gram, D, K2, K1, D2, I, K3>>)
      ELSE [K1 |-> K1, K2 |-> K2, K3 |-> K3, gram |-> gram])))))))

\* ------------------------------------------------------------- Network

\* A network is [kind, ndim_in, ndim_out, batch_size, W, b, lin_grads]: kind is
\* "Linear", "Square" or "LinearReLU", W has shape (ndim_out[0], ndim_in[0]),
\* b has shape (1, ndim_out[0]) and lin_grads is the pair of slopes [g0, g1].

RLe(a, b) == a[1] * b[2] <= b[1] * a[2]
RPos(a) == a[1] > 0

\* tf.maximum of two numbers
EMax(a, b) == IF RLe(EVal(b), EVal(a)) THEN a ELSE b
TMax(A, B) == TBin(EMax, A, B)

\* T[0]
Row0(T) ==
    Let(T, LAMBDA t :
      IF IsErr(t) THEN t
      ELSE LET s == SubSeq(t.shape, 2, Rank(t))
           IN  Tensor(s, [i \in IdxSet(s) |-> t.at[<<1>> \o i]]))

\* tf.tile(W[None, :, :], [n, 1, 1])
TileRows(W, n) ==
    LET s == <<n>> \o W.shape
    IN  Tensor(s, [i \in IdxSet(s) |-> W.at[SubSeq(i, 2, Len(i))]])

\* a reshape_data_tensor that takes whatever it is given for a batch
reshape_data_tensor_unchecked(net, x) == [x |-> x, single |-> FALSE]

reshape_data_tensor(net, x) ==
    IF Rank(x) = Len(net.ndim_in)
    THEN IF x.shape = net.ndim_in THEN [x |-> ExpandDims(x, 0), single |-> TRUE]
         ELSE Err("NameError")
    ELSE IF SubSeq(x.shape, 2, Rank(x)) # net.ndim_in THEN Err("NameError")
         ELSE [x |-> x, single |-> FALSE]

\* tf.matmul(data, W, transpose_b = True) + b
pre_activation(net, x) == TAdd(MatMulTB(x, net.W), net.b)

\* what each variant's forward_tensor applies to W x + b
activation(net, p) ==
    CASE net.kind = "Linear" -> p
      [] net.kind = "Square" -> TSquare(p)
      [] net.kind = "LinearReLU" ->
           TMax(TScale(net.lin_grads[2], p), TScale(net.lin_grads[1], p))

forward_tensor(net, data) ==
    Let(reshape_data_tensor(net, data), LAMBDA r :
      IF IsErr(r) THEN r
      ELSE Let(activation(net, pre_activation(net, r.x)), LAMBDA out :
             IF r.single THEN Row0(out) ELSE out))

\* The slope tf.gradients gives the activation at pre-activation p: 1 for
\* Linear, 2 p for the square, and for tf.maximum(p * g1, p * g0) the slope of
\* the first argument where it is >= the second, else of the second.
activation_slope(net, p) ==
    CASE net.kind = "Linear" -> R1
      [] net.kind = "Square" -> RMul(RInt(2), p)
      [] net.kind = "LinearReLU" ->
           IF RLe(RMul(p, net.lin_grads[1]), RMul(p, net.lin_grads[2]))
           THEN net.lin_grads[2] ELSE net.lin_grads[1]

\* tf.stack([tf.gradients(son.sum_output[oi], son.batch)[0] for oi ...]): entry
\* [o, j, i] is the derivative of output o of example j in input coordinate i
sum_output_gradients(net, batch) ==
    Let(pre_activation(net, batch), LAMBDA p :
      LET s == <<net.ndim_out[1], net.batch_size>> \o net.ndim_in
      IN  Tensor(s, [i \in IdxSet(s) |->
              EScale(activation_slope(net, EVal(p.at[<<i[2], i[1]>>])), net.W.at[<<i[1], i[3]>>])]))

\* a _grad_zero that fills an absent gradient with ones
activation_curvature_ones(net) == IF net.kind = "Square" THEN RInt(2) ELSE R1

\* The derivative of the activation's slope in p, as tf.gradients finds it: the
\* slope of Linear and of tf.maximum does not depend on the batch (no gradient,
\* which _grad_zero makes zeros), the slope 2 p of the square has derivative 2.
activation_curvature(net) == IF net.kind = "Square" THEN RInt(2) ELSE R0

\* Network.get_grad_data: gradient node, output node and input node, with the
\* input placeholder fed batch
Network_get_grad_data(net, batch) ==
    [grad |-> sum_output_gradients(net, batch), output |-> forward_tensor(net, batch), data |-> batch]

LinearNetwork_get_grad_data(net, data) ==
    [grad |-> Transpose(TileRows(net.W, net.batch_size), <<1, 0, 2>>),
     output |-> forward_tensor(net, data), data |-> data]

\* (lin_grads[1] * cast(o > 0) + lin_grads[0] * cast(o <= 0))[:, :, None] * W[None, :, :]
get_grad_input(net, o) ==
    LET gate(v) == EAdd(EScale(net.lin_grads[2], IF RPos(EVal(v)) THEN EInt(1) ELSE EZero),
                        EScale(net.lin_grads[1], IF ~RPos(EVal(v)) THEN EInt(1) ELSE EZero))
    IN  TMul(ExpandDims(TMap(gate, o), 2), ExpandDims(net.W, 0))

LinearReLUNetwork_get_grad_data(net, data) ==
    Let(forward_tensor(net, data), LAMBDA out :
      [grad |-> Transpose(get_grad_input(net, out), <<1, 0, 2>>), output |-> out, data |-> data])

\* network.get_grad_data(): the variant's own method where it defines one
get_grad_data(net, batch) ==
    CASE net.kind = "Linear" -> LinearNetwork_get_grad_data(net, batch)
      [] net.kind = "LinearReLU" -> LinearReLUNetwork_get_grad_data(net, batch)
      [] net.kind = "Square" -> Network_get_grad_data(net, batch)

\* a get_sec_data that gathers the derivative in the next input coordinate
get_sec_data_mixed(net, batch) ==
    LET s == <<net.ndim_out[1], net.batch_size>> \o net.ndim_in
        sec == Tensor(s, [i \in IdxSet(s) |->
                  EScale(activation_curvature(net),
                         EMul(net.W.at[<<i[1], i[3]>>], net.W.at[<<i[1], (i[3] % net.ndim_in[1]) + 1>>]))])
    IN  [sec |-> sec, grad |-> sum_output_gradients(net, batch),
         output |-> forward_tensor(net, batch), data |-> batch]

\* Network.get_sec_data: entry [o, b, i] of the first tensor is the gathered
\* element (b, i) of the gradient of g_flat[o, i], the batch-summed first
\* derivative, in the batch
get_sec_data(net, batch) ==
    LET s == <<net.ndim_out[1], net.batch_size>> \o net.ndim_in
        sec == Tensor(s, [i \in IdxSet(s) |->
                  EScale(activation_curvature(net),
                         EMul(net.W.at[<<i[1], i[3]>>], net.W.at[<<i[1], i[3]>>]))])
    IN  [sec |-> sec, grad |-> sum_output_gradients(net, batch),
         output |-> forward_tensor(net, batch), data |-> batch]

\* --- the indices of get_sec_data, for an input shape of any rank.  Python's
\* 0-based positions are kept for np's index arrays; a tensor's index tuples are
\* 1-based.

RECURSIVE np_prod(_)
np_prod(s) == IF Len(s) = 0 THEN 1 ELSE s[1] * np_prod(Tail(s))

RECURSIVE RowMajorOffset(_, _)
\* the position of (0-based) index c in the row-major layout of shape s
RowMajorOffset(c, s) ==
    IF Len(s) = 0 THEN 0
    ELSE RowMajorOffset(SubSeq(c, 1, Len(c) - 1), SubSeq(s, 1, Len(s) - 1)) * s[Len(s)] + c[Len(c)]

RECURSIVE RowMajorIndex(_, _)
\* the (0-based) index at position k of the row-major layout of shape s
RowMajorIndex(k, s) ==
    IF Len(s) = 0 THEN <<>>
    ELSE Append(RowMajorIndex(k \div s[Len(s)], SubSeq(s, 1, Len(s) - 1)), k % s[Len(s)])

Plus1(c) == [k \in 1..Len(c) |-> c[k] + 1]
Minus1(c) == [k \in 1..Len(c) |-> c[k] - 1]

\* tf.reshape(T, s): the same row-major layout under another shape
Reshape(T, s) ==
    Tensor(s, [j \in IdxSet(s) |->
        T.at[Plus1(RowMajorIndex(RowMajorOffset(Minus1(j), s), T.shape))]])

RECURSIVE unravel_index_fortran(_, _)
\* an unravel_index that counts the first coordinate fastest
unravel_index_fortran(i, dims) ==
    IF Len(dims) = 0 THEN <<>>
    ELSE <<i % dims[1]>> \o unravel_index_fortran(i \div dims[1], Tail(dims))

RECURSIVE unravel_index(_, _)
\* np.unravel_index(i, dims), in numpy's default C order
unravel_index(i, dims) ==
    IF Len(dims) = 0 THEN <<>>
    ELSE Append(unravel_index(i \div dims[Len(dims)], SubSeq(dims, 1, Len(dims) - 1)),
                i % dims[Len(dims)])

\* raveled_index = np.arange(np.prod(self.ndim_in))
raveled_index(net) == 0..(np_prod(net.ndim_in) - 1)

\* column i of unraveled_index
unraveled_index(net, i) == unravel_index(i, net.ndim_in)

\* tf.reduce_sum(grad, 1): entry [o, c] names the derivative of output o, summed
\* over the examples, in input coordinate c
sum_grad(net) ==
    LET s == <<net.ndim_out[1]>> \o net.ndim_in
    IN  Tensor(s, [j \in IdxSet(s) |-> [out |-> j[1], x |-> Tail(j)]])

\* g_flat = tf.reshape(sum_grad, [self.ndim_out[0], -1])
g_flat(net) == Reshape(sum_grad(net), <<net.ndim_out[1], np_prod(net.ndim_in)>>)

\* _grad_zero(f, [son.batch])[0]: entry [b, c] names the derivative of f in
\* coordinate c of example b
grad_zero(net, f) ==
    LET s == <<net.batch_size>> \o net.ndim_in
    IN  Tensor(s, [j \in IdxSet(s) |-> [of |-> f, b |-> j[1], x |-> Tail(j)]])

\* np.c_[np.arange(batch_size)[:, None], np.tile(unraveled_index[:, i], [batch_size, 1])]
gather_index(net, i) == [b \in 1..net.batch_size |-> <<b - 1>> \o unraveled_index(net, i)]

\* tf.gather_nd(A, idx): [A[row] for row in idx]
gather_nd(A, idx) == Tensor(<<Len(idx)>>, [k \in IdxSet(<<Len(idx)>>) |-> A.at[Plus1(idx[k[1]])]])

\* sec_stack before the transpose: entry [oi, i, b] is entry b of the gather for
\* output oi and flat coordinate i
sec_oi_ii(net) ==
    LET s == <<net.ndim_out[1], np_prod(net.ndim_in), net.batch_size>>
        g == g_flat(net)
    IN  Tensor(s, [j \in IdxSet(s) |->
            gather_nd(grad_zero(net, g.at[<<j[1], j[2]>>]), gather_index(net, j[2] - 1)).at[<<j[3]>>]])

\* the first tensor get_sec_data returns, each entry named by what it is the
\* derivative of and in which entry of the batch
sec_stack(net) ==
    Reshape(Transpose(sec_oi_ii(net), <<0, 2, 1>>),
            <<net.ndim_out[1], net.batch_size>> \o net.ndim_in)

\* sum of v ** 2 over the parameters
get_param_size(net) == ReduceSumAll(TAdd(ReduceSumAll(TSquare(net.W)), ReduceSumAll(TSquare(net.b))))

\* ------------------------------------------------------------ DeepNetwork

\* A DeepNetwork is [kind |-> "Deep", nlayer, layers, ndim_in, ndim_out,
\* batch_size, param]; an OrderedDict is the sequence of its <<key, value>>
\* pairs in insertion order.

HasAttr(o, a) == a \in DOMAIN o

\* isinstance(l, Network)
IsNetwork(l) == HasAttr(l, "kind") /\ l.kind \in {"Linear", "Square", "LinearReLU", "Deep"}

\* l.param: OrderedDict([('W', W), ('b', b)]) for the single layers
param(l) == IF HasAttr(l, "param") THEN l.param ELSE <<<<"W", l.W>>, <<"b", l.b>>>>

\* od[key] = v
SetItem(od, key, v) ==
    IF \E k \in 1..Len(od) : od[k][1] = key
    THEN [k \in 1..Len(od) |-> IF od[k][1] = key THEN <<key, v>> ELSE od[k]]
    ELSE Append(od, <<key, v>>)

\* a key that leaves the layer out
deep_key_flat(li, lp) == lp

\* 'layer' + str(li + 1) + lp, li counting from 0
deep_key(li, lp) == "layer" \o ToString(li + 1) \o lp

RECURSIVE deep_param(_, _, _, _)
\* the two loops of DeepNetwork.__init__ from layer li (from 1), parameter k on
deep_param(layers, li, k, od) ==
    IF li > Len(layers) THEN od
    ELSE IF k > Len(param(layers[li])) THEN deep_param(layers, li + 1, 1, od)
    ELSE deep_param(layers, li, k + 1,
                    SetItem(od, deep_key(li - 1, param(layers[li])[k][1]), param(layers[li])[k][2]))

\* a _check_consistency that leaves the batch sizes alone
check_consistency_shapes(self, layers) ==
    IF \E li \in 1..Len(layers) :
         \/ ~IsNetwork(layers[li])
         \/ li < self.nlayer /\ layers[li + 1].ndim_in # layers[li].ndim_out
    THEN Err("AssertionError") ELSE None

\* _check_consistency: the first assert that fails, layer by layer
check_consistency(self, layers) ==
    IF \E li \in 1..Len(layers) :
         \/ ~IsNetwork(layers[li])
         \/ li < self.nlayer /\ layers[li + 1].ndim_in # layers[li].ndim_out
         \/ layers[li].batch_size # self.batch_size
    THEN Err("AssertionError") ELSE None

\* DeepNetwork(layers): the object, or the exception the constructor raises
DeepNetwork(layers) ==
    IF Len(layers) = 0 THEN Err("IndexError")
    ELSE IF ~HasAttr(layers[Len(layers)], "ndim_out") THEN Err("AttributeError")
    ELSE IF ~HasAttr(layers[1], "ndim_in") \/ ~HasAttr(layers[1], "batch_size") THEN Err("AttributeError")
    ELSE IF \E li \in 1..Len(layers) : ~HasAttr(layers[li], "param") /\ ~HasAttr(layers[li], "W")
      THEN Err("AttributeError")
    ELSE Let([kind |-> "Deep", nlayer |-> Len(layers), layers |-> layers,
              ndim_out |-> layers[Len(layers)].ndim_out, ndim_in |-> layers[1].ndim_in,
              batch_size |-> layers[1].batch_size, param |-> deep_param(layers, 1, 1, <<>>)],
             LAMBDA self :
               Let(check_consistency(self, layers), LAMBDA c : IF IsErr(c) THEN c ELSE self))

RECURSIVE forward_layers(_, _, _)
\* the loop of DeepNetwork.forward_tensor from layer li on; a layer that
\* raises ends it
forward_layers(net, li, out) ==
    IF IsErr(out) \/ li > net.nlayer THEN out
    ELSE forward_layers(net, li + 1,
                        IF net.layers[li].kind = "Deep" THEN forward_layers(net.layers[li], 1, out)
                        ELSE forward_tensor(net.layers[li], out))

DeepNetwork_forward_tensor(net, data) == forward_layers(net, 1, data)

\* network.forward_tensor(data) of any variant
Network_forward_tensor(net, data) ==
    IF net.kind = "Deep" THEN DeepNetwork_forward_tensor(net, data) ELSE forward_tensor(net, data)

\* ------------------------------------------------------ KernelNetModel

\* _construct_index: one einsum label per axis of ndim_in, from chr(115) on
construct_index(ndim_in) == SubSeq(<<"s", "t", "u", "v", "w", "x", "y", "z">>, 1, Len(ndim_in))

\* evaluate_kernel_fun's Y: a rank-1 Y becomes one row
one_row_if_vector(Y) == IF IsErr(Y) THEN Y ELSE IF Rank(Y) = 1 THEN ExpandDims(Y, 0) ELSE Y

\* a self.X that defaults to three points at the origin
read_X_or_origin(Xs) == IF Xs = NoX THEN Zeros(<<3, 2>>) ELSE Xs.val

\* self.X: the attribute exists once set_points or score assigned it
read_X(Xs) == IF Xs = NoX THEN Err("AttributeError") ELSE Xs.val

\* the assert of set_points and the features it stores
set_points(net, points) ==
    IF IsErr(points) THEN points
    ELSE IF SubSeq(points.shape, 2, Rank(points)) # net.ndim_in THEN Err("AssertionError")
    ELSE forward_tensor(net, points)

\* an evaluate_kernel_fun that adds the kernel values up without alpha
evaluate_kernel_fun_unweighted(sigma, al, Xv, Y) ==
    Let(get_gram_matrix(sigma, Xv, one_row_if_vector(Y)), LAMBDA gram :
      IF IsErr(gram) THEN gram
      ELSE IF al.shape[1] # gram.shape[1] THEN Err("ValueError")
      ELSE ReduceSum(gram, 0, FALSE))

evaluate_kernel_fun(sigma, al, Xv, Y) ==
    Let(get_gram_matrix(sigma, Xv, one_row_if_vector(Y)), LAMBDA gram :
      Einsum(<<al, gram>>, <<<<"i">>, <<"i", "j">>>>, <<"j">>))

\* alpha[:, None, None]
alpha3(al) == ExpandDims(ExpandDims(al, 1), 2)
\* alpha[:, None, None, None]
alpha4(al) == ExpandDims(alpha3(al), 3)

get_kernel_fun_grad(sigma, al, Xv, Y) ==
    Let(get_grad(sigma, Xv, Y), LAMBDA K :
    Let(ReduceSum(TMul(alpha3(al), K), 0, FALSE), LAMBDA grad :
      IF AnyErr(<<K, grad>>) THEN FirstErr(<<K, grad>>) ELSE [grad |-> grad, K |-> K]))

get_kernel_fun_hess(sigma, al, Xv, Y) ==
    Let(get_hess(sigma, Xv, Y), LAMBDA K :
    Let(ReduceSum(TMul(alpha4(al), K), 0, FALSE), LAMBDA hess :
      IF AnyErr(<<K, hess>>) THEN FirstErr(<<K, hess>>) ELSE [hess |-> hess, K |-> K]))

get_kernel_fun_grad_hess(sigma, al, Xv, Y) ==
    Let(get_grad_hess(sigma, Xv, Y), LAMBDA k :
      IF IsErr(k) THEN k
      ELSE Let(ReduceSum(TMul(alpha3(al), k.K1), 0, FALSE), LAMBDA grad :
           Let(ReduceSum(TMul(alpha4(al), k.K2), 0, FALSE), LAMBDA hess :
             IF AnyErr(<<grad, hess>>) THEN FirstErr(<<grad, hess>>)
             ELSE [grad |-> grad, hess |-> hess])))

\* tf.einsum('jk,kj' + idx + '->j' + idx, dfdy, dydx)
chain_first(idx, dfdy, dydx) ==
    Einsum(<<dfdy, dydx>>, <<<<"j", "k">>, <<"k", "j">> \o idx>>, <<"j">> \o idx)

\* tf.einsum('jkl,kj' + idx + ',lj' + idx + '->j' + idx, d2fdy2, dydx, dydx)
chain_second(idx, d2fdy2, dydx) ==
    Einsum(<<d2fdy2, dydx, dydx>>, <<<<"j", "k", "l">>, <<"k", "j">> \o idx, <<"l", "j">> \o idx>>,
           <<"j">> \o idx)

\* tf.reduce_sum(d2fdx2 + 0.5 * dfdx**2) + lam * self.network.get_param_size()
objective(net, d2fdx2, dfdx, lam) ==
    TAdd(ReduceSumAll(TAdd(d2fdx2, TScale(RHalf, TSquare(dfdx)))), TScale(lam, get_param_size(net)))

\* score(lam) with the placeholder points fed pts and the batch placeholder fed batch
score(net, sigma, al, pts, batch, lam) ==
    Let(forward_tensor(net, pts), LAMBDA Xv :
    Let(get_sec_data(net, batch), LAMBDA n :
    Let(get_kernel_fun_grad_hess(sigma, al, Xv, n.output), LAMBDA f :
      IF IsErr(Xv) THEN Xv
      ELSE IF IsErr(f) THEN f
      ELSE Let(chain_first(construct_index(net.ndim_in), f.grad, n.grad), LAMBDA dfdx :
           Let(TAdd(chain_second(construct_index(net.ndim_in), f.hess, n.grad),
                    chain_first(construct_index(net.ndim_in), f.grad, n.sec)), LAMBDA d2fdx2 :
             objective(net, d2fdx2, dfdx, lam))))))

linear_score(net, sigma, al, pts, batch, lam) ==
    Let(forward_tensor(net, pts), LAMBDA Xv :
    Let(get_grad_data(net, batch), LAMBDA n :
    Let(get_kernel_fun_grad_hess(sigma, al, Xv, n.output), LAMBDA f :
      IF IsErr(Xv) THEN Xv
      ELSE IF IsErr(f) THEN f
      ELSE Let(chain_first(construct_index(net.ndim_in), f.grad, n.grad), LAMBDA dfdx :
           Let(chain_second(construct_index(net.ndim_in), f.hess, n.grad), LAMBDA d2fdx2 :
             objective(net, d2fdx2, dfdx, lam))))))

\* 1/sigma, 1.0/sigma for a Python 2 number: the quotient of two ints is floored
PyDiv(n, isFloat, sigma) ==
    IF sigma.isInt /\ ~isFloat THEN RInt(n \div sigma.val[1]) ELSE RDiv(RInt(n), sigma.val)

\* a score_original that reads a distance matrix left in the kernel, if any
score_original_stale(net, sg, al, Xv, cached, data) ==
    LET sigma == sg.val
        N == RInt(data.shape[1])
        ndim == net.ndim_out[1]
    IN  Let(forward_tensor(net, data), LAMBDA Y :
        Let(get_gram_matrix(sigma, Xv, Y), LAMBDA K :
          IF AnyErr(<<Y, K>>) THEN FirstErr(<<Y, K>>)
          ELSE
        Let(TSub(TScale(PyDiv(1, TRUE, sg), IF cached = None THEN get_pdist2(Xv, Y) ELSE cached),
                 Scalar(EInt(ndim))), LAMBDA D :
        Let(TScale(RDiv(RDiv(R1, N), sigma),
                   ReduceSumAll(TMul(TMul(ExpandDims(al, 1), K), D))), LAMBDA J1 :
        Let(TSub(ExpandDims(Xv, 1), ExpandDims(Y, 0)), LAMBDA S :
        Let(ReduceSum(TMul(TMul(ExpandDims(ExpandDims(al, -1), -1), S), ExpandDims(K, -1)), 0, FALSE),
            LAMBDA inner :
          TAdd(J1, TScale(RDiv(RDiv(RHalf, N), RMul(sigma, sigma)),
                          ReduceSumAll(TSquare(inner))))))))))

score_original(net, sg, al, Xv, cached, data) ==
    LET sigma == sg.val
        N == RInt(data.shape[1])
        ndim == net.ndim_out[1]
    IN  Let(forward_tensor(net, data), LAMBDA Y :
        Let(get_gram_matrix(sigma, Xv, Y), LAMBDA K :
          IF AnyErr(<<Y, K>>) THEN FirstErr(<<Y, K>>)
          ELSE
        Let(TSub(TScale(PyDiv(1, TRUE, sg), pdist2_after(cached, Xv, Y)), Scalar(EInt(ndim))), LAMBDA D :
        Let(TScale(RDiv(RDiv(R1, N), sigma),
                   ReduceSumAll(TMul(TMul(ExpandDims(al, 1), K), D))), LAMBDA J1 :
        Let(TSub(ExpandDims(Xv, 1), ExpandDims(Y, 0)), LAMBDA S :
        Let(ReduceSum(TMul(TMul(ExpandDims(ExpandDims(al, -1), -1), S), ExpandDims(K, -1)), 0, FALSE),
            LAMBDA inner :
          TAdd(J1, TScale(RDiv(RDiv(RHalf, N), RMul(sigma, sigma)),
                          ReduceSumAll(TSquare(inner))))))))))

\* _kernel_score_stats(Y): the vector b and the matrix C
kernel_score_stats(net, sg, Xv, Y) ==
    LET D == net.ndim_out[1]
    IN  Let(get_gram_matrix(sg.val, Xv, Y), LAMBDA K :
        Let(TSub(ExpandDims(Xv, 1), ExpandDims(Y, 0)), LAMBDA S :
        Let(TScale(RInt(-D), ReduceSum(K, 1, FALSE)), LAMBDA b1 :
        Let(TAdd(b1, TScale(PyDiv(1, FALSE, sg),
                            ReduceSum(TMul(K, ReduceSum(TSquare(S), 2, FALSE)), 1, FALSE))), LAMBDA b :
        Let(TMul(S, ExpandDims(K, -1)), LAMBDA A :
        Let(Einsum(<<A, A>>, <<<<"i", "k", "l">>, <<"j", "k", "l">>>>, <<"i", "j">>), LAMBDA C :
          IF AnyErr(<<K, S, b, A, C>>) THEN FirstErr(<<K, S, b, A, C>>)
          ELSE [b |-> b, C |-> C]))))))

kernel_score(net, sg, al, Xv, data) ==
    LET ndata == RInt(data.shape[1])
    IN  Let(forward_tensor(net, data), LAMBDA Y :
          IF IsErr(Y) THEN Y
          ELSE Let(kernel_score_stats(net, sg, Xv, Y), LAMBDA st :
            IF IsErr(st) THEN st
            ELSE TAdd(TScale(RDiv(RDiv(R1, ndata), sg.val),
                             Einsum(<<al, st.b>>, <<<<"i">>, <<"i">>>>, <<>>)),
                      TScale(RDiv(RDiv(RHalf, ndata), RMul(sg.val, sg.val)),
                             Einsum(<<al, st.C, al>>, <<<<"i">>, <<"i", "j">>, <<"j">>>>, <<>>)))))

\* a kernel_fit that adds the default lam to the diagonal of C
kernel_fit_ridge(net, sg, n, Xs, data) ==
    Let(forward_tensor(net, data), LAMBDA Y :
      IF IsErr(Y) THEN Y
      ELSE Let(kernel_score_stats(net, sg, read_X(Xs), Y), LAMBDA st :
        IF IsErr(st) THEN st
        ELSE IF Xs.kind = "fed" THEN Err("InvalidArgumentError")
        ELSE IF st.b.shape[1] = 1 \/ st.b.shape[1] # n THEN Err("ValueError")
        ELSE [kind |-> "assign", n |-> n, scale |-> RNeg(sg.val),
              C |-> TAdd(st.C, TScale(RNorm(1, 100), Eye(n))), b |-> st.b]))

\* kernel_fit(data, lam): the alpha it assigns and returns, -sigma * solve(C, b)
\* kept as the system, or the exception it raises.  C.eval() needs every
\* placeholder C depends on fed, and tf.assign needs the squeezed solution to
\* have alpha's shape.
kernel_fit(net, sg, n, Xs, data) ==
    Let(forward_tensor(net, data), LAMBDA Y :
      IF IsErr(Y) THEN Y
      ELSE Let(kernel_score_stats(net, sg, read_X(Xs), Y), LAMBDA st :
        IF IsErr(st) THEN st
        ELSE IF Xs.kind = "fed" THEN Err("InvalidArgumentError")
        ELSE IF st.b.shape[1] = 1 \/ st.b.shape[1] # n THEN Err("ValueError")
        ELSE [kind |-> "assign", n |-> n, scale |-> RNeg(sg.val), C |-> st.C, b |-> st.b]))

\* get_opt_alpha up to its first exception: the features set_points stores,
\* then the exception
get_opt_alpha_points(net, pts) == set_points(net, forward_tensor(net, pts))

get_opt_alpha(net, pts, batch) ==
    Let(get_opt_alpha_points(net, pts), LAMBDA Xv :
      IF IsErr(Xv) THEN Xv
      ELSE Let(get_sec_data(net, batch), LAMBDA n :
        IF AnyErr(<<n.output>>) THEN n.output ELSE Err("TypeError")))

\* --------------------------------------------------------- KernelNetMSD

MSD_V(net, sigma, bx, by, dp_dx, dp_dy) ==
    LET idx == construct_index(net.ndim_in)
    IN  Let(get_grad_data(net, bx), LAMBDA zx :
        Let(get_grad_data(net, by), LAMBDA zy :
        Let(get_two_grad_cross_hess(sigma, zx.output, zy.output), LAMBDA k :
          IF IsErr(k) THEN k
          ELSE
        Let(Einsum(<<k.K1, zx.grad>>, <<<<"i", "j", "k">>, <<"k", "i">> \o idx>>, <<"i", "j">> \o idx),
            LAMBDA dk_dX :
        Let(Einsum(<<k.K2, zy.grad>>, <<<<"i", "j", "k">>, <<"k", "j">> \o idx>>, <<"i", "j">> \o idx),
            LAMBDA dk_dY :
        Let(Einsum(<<k.K3, zx.grad, zy.grad>>,
                   <<<<"i", "j", "k", "l">>, <<"k", "i">> \o idx, <<"l", "j">> \o idx>>, <<"i", "j">> \o idx),
            LAMBDA d2k_dXdY :
        Let(TAdd(TAdd(TAdd(
              TMul(Einsum(<<dp_dx, dp_dy>>, <<<<"i">> \o idx, <<"j">> \o idx>>, <<"i", "j">>), k.gram),
              Einsum(<<dp_dy, dk_dX>>, <<<<"j">> \o idx, <<"i", "j">> \o idx>>, <<"i", "j">>)),
              Einsum(<<dp_dx, dk_dY>>, <<<<"i">> \o idx, <<"i", "j">> \o idx>>, <<"i", "j">>)),
              ReduceSum(d2k_dXdY, 2, FALSE)), LAMBDA h :
          IF IsErr(h) THEN h
          ELSE [h |-> TScale(RInv(RInt(net.batch_size * net.batch_size)), ReduceSumAll(h)),
                X |-> bx, Y |-> by, dp_dx |-> dp_dx, dp_dy |-> dp_dy])))))))

FSSD(net, sigma, bx, by, points) ==
    LET idx == construct_index(net.ndim_in)
    IN  Let(get_grad_data(net, bx), LAMBDA zx :
        Let(get_grad_data(net, by), LAMBDA zy :
        Let(get_grad_gram(sigma, zx.output, points), LAMBDA kx :
        Let(get_grad_gram(sigma, zy.output, points), LAMBDA ky :
          IF AnyErr(<<kx, ky>>) THEN FirstErr(<<kx, ky>>)
          ELSE
        Let(Einsum(<<kx.K, zx.grad>>, <<<<"i", "j", "k">>, <<"k", "i">> \o idx>>, <<"i", "j">> \o idx),
            LAMBDA dk_dX :
        Let(Einsum(<<ky.K, zy.grad>>, <<<<"i", "j", "k">>, <<"k", "j">> \o idx>>, <<"i", "j">> \o idx),
            LAMBDA dk_dY :
          IF AnyErr(<<dk_dX, dk_dY>>) THEN FirstErr(<<dk_dX, dk_dY>>)
          \* d2k_dZXdZY is not a name of this function
          ELSE Err("NameError")))))))

\* ---------------------------------------------------------------- state

VARIABLES
    network,    \* the model's network: its variant, shapes and parameters
    kernel,     \* the GaussianKernel: sigma and the cached pdist2
    alpha,      \* the model's coefficient vector
    X,          \* the model's basis-point features (self.X), or unset
    args,       \* the tensors the caller holds and feeds
    ret,        \* the last call: its name, its argument and what it returned or raised
    calls       \* how many calls were made since construction

vars == <<network, kernel, alpha, X, args, ret, calls>>

\* ------------------------------------------------------- bounded inputs

MaxDim == 2      \* feature dimensions 1..MaxDim
MaxRows == 2     \* rows of a kernel argument 1..MaxRows
MaxVal == 2      \* entries 0..MaxVal
MaxSeed == 1     \* tensors per shape
MaxSigma == 2    \* bandwidths 1..MaxSigma
MaxCalls == 2    \* calls on one model

RECURSIVE WeightedSum(_)
WeightedSum(i) == IF Len(i) = 0 THEN 0 ELSE Len(i) * i[Len(i)] + WeightedSum(SubSeq(i, 1, Len(i) - 1))

\* a tensor of shape s with integer entries in 0..MaxVal
Fill(s, e) == Tensor(s, [i \in IdxSet(s) |-> EInt((WeightedSum(i) + e) % (MaxVal + 1))])

KernelShapes == {<<d>> : d \in 1..MaxDim} \cup {<<m, d>> : m \in 1..MaxRows, d \in 1..MaxDim}
KernelInputs == {Fill(s, e) : s \in KernelShapes, e \in 0..MaxSeed}

\* ------------------------------------------------ the kernel on its own

\* GaussianKernel(ndim, sigma): sigma is stored as passed, whatever its sign
GaussianKernel(sigma) == [sigma |-> [val |-> RInt(sigma), isInt |-> FALSE], pdist2 |-> None]

KernelInit ==
    /\ network = None
    /\ alpha = None
    /\ X = NoX
    /\ kernel \in {GaussianKernel(v) : v \in (-1)..MaxSigma}
    /\ args \in [X : KernelInputs, Y : KernelInputs]
    /\ ret = None
    /\ calls = 0

\* One call of a kernel method on (args.X, args.Y).  Every method goes through
\* get_pdist2 first, which leaves its result in self.pdist2 and reads nothing of
\* the kernel but sigma, so a second call on the same arguments returns what the
\* first did: a behaviour is the construction followed by one call.
KernelCall(name, val) ==
    /\ ret = None
    /\ ret' = [op |-> name, val |-> val]
    /\ calls' = calls + 1
    /\ kernel' = [kernel EXCEPT !.pdist2 = pdist2_after(kernel.pdist2, args.X, args.Y)]
    /\ UNCHANGED <<network, alpha, X, args>>

KGetPdist2 == KernelCall("get_pdist2", get_pdist2(args.X, args.Y))
KGetGramMatrix == KernelCall("get_gram_matrix", get_gram_matrix(kernel.sigma.val, args.X, args.Y))
KGetGrad == KernelCall("get_grad", get_grad(kernel.sigma.val, args.X, args.Y))
KGetGradGram == KernelCall("get_grad_gram", get_grad_gram(kernel.sigma.val, args.X, args.Y))
KGetHess == KernelCall("get_hess", get_hess(kernel.sigma.val, args.X, args.Y))
KGetGradHess == KernelCall("get_grad_hess", get_grad_hess(kernel.sigma.val, args.X, args.Y))
KGetTwoGradCrossHess ==
    KernelCall("get_two_grad_cross_hess", get_two_grad_cross_hess(kernel.sigma.val, args.X, args.Y))

KernelNext ==
    \/ KGetPdist2
    \/ KGetGramMatrix
    \/ KGetGrad
    \/ KGetGradGram
    \/ KGetHess
    \/ KGetGradHess
    \/ KGetTwoGradCrossHess

KernelSpec == KernelInit /\ [][KernelNext]_vars

\* ------------------------------------------- the model and its networks

Matrix(rows) ==
    LET s == <<Len(rows), Len(rows[1])>>
    IN  Tensor(s, [i \in IdxSet(s) |-> EInt(rows[i[1]][i[2]])])

Vector(v) == Tensor(<<Len(v)>>, [i \in IdxSet(<<Len(v)>>) |-> EInt(v[i[1]])])

LinearNetwork(ndim_in, ndim_out, batch_size, W, b) ==
    [kind |-> "Linear", ndim_in |-> ndim_in, ndim_out |-> ndim_out, batch_size |-> batch_size,
     W |-> W, b |-> b, lin_grads |-> <<>>]

SquareNetwork(ndim_in, ndim_out, batch_size, W, b) ==
    [kind |-> "Square", ndim_in |-> ndim_in, ndim_out |-> ndim_out, batch_size |-> batch_size,
     W |-> W, b |-> b, lin_grads |-> <<>>]

LinearReLUNetwork(ndim_in, ndim_out, batch_size, W, b, lin_grads) ==
    [kind |-> "LinearReLU", ndim_in |-> ndim_in, ndim_out |-> ndim_out, batch_size |-> batch_size,
     W |-> W, b |-> b, lin_grads |-> lin_grads]

\* networks with the default batch size; the weights are values the variables
\* can hold, the ReLU's bias is the zeros it starts from
Networks ==
    { LinearNetwork(<<2>>, <<2>>, 2, Matrix(<<<<1, 0>>, <<0, 1>>>>), Matrix(<<<<0, 0>>>>)),
      SquareNetwork(<<2>>, <<1>>, 2, Matrix(<<<<1, 2>>>>), Matrix(<<<<1>>>>)),
      LinearReLUNetwork(<<1>>, <<1>>, 2, Matrix(<<<<1>>>>), Matrix(<<<<0>>>>), <<R0, R1>>),
      LinearReLUNetwork(<<1>>, <<1>>, 2, Matrix(<<<<1>>>>), Matrix(<<<<1>>>>), <<RInt(2), R1>>) }

\* the regularisation weights a caller passes: the default 0.0, and 1.0
Lams == <<R0, R1>>

\* The c-th caller.  sigma as the caller wrote it: the float 1.0, or a Python
\* int; alpha: three ones, or two coefficients of either sign.
SigmaOf(c) == IF c = 0 THEN [val |-> R1, isInt |-> FALSE] ELSE [val |-> RInt(c + 1), isInt |-> TRUE]
AlphaOf(c) == IF c = 0 THEN Vector(<<1, 1, 1>>) ELSE Vector(<<c + 1, -c>>)

\* the points a caller passes: for three basis points the unit simplex
PointsFor(n, ndim_in, e) ==
    IF n = 3 /\ ndim_in = <<2>> /\ e = 0 THEN Matrix(<<<<0, 0>>, <<1, 0>>, <<0, 1>>>>)
    ELSE Fill(<<n>> \o ndim_in, e)

ModelInit ==
    /\ network \in Networks
    /\ \E c \in 0..MaxSeed :
         /\ kernel = [sigma |-> SigmaOf(c), pdist2 |-> None]
         /\ alpha = [kind |-> "var", n |-> AlphaOf(c).shape[1], val |-> AlphaOf(c)]
         /\ args = [points |-> PointsFor(alpha.n, network.ndim_in, c),
                    data |-> Fill(<<network.batch_size>> \o network.ndim_in, c),
                    lam |-> Lams[(c % 2) + 1]]
    /\ X = NoX
    /\ ret = None
    /\ calls = 0

\* alpha as a vector: the variable's value; after a fit the value is the
\* solution of a system the model does not solve, and what is computed from
\* it stays unevaluated
AlphaT == IF alpha.kind = "var" THEN alpha.val ELSE Tensor(<<alpha.n>>, [i \in IdxSet(<<alpha.n>>) |-> EInt(1)])
Valued(v) == Let(v, LAMBDA x : IF IsErr(x) \/ alpha.kind = "var" THEN x ELSE [unevaluated |-> TRUE])

ModelCall(name, arg, val, X2, alpha2, pdist2) ==
    /\ calls < MaxCalls
    /\ calls' = calls + 1
    /\ ret' = [op |-> name, arg |-> arg, val |-> val]
    /\ X' = X2
    /\ alpha' = alpha2
    /\ kernel' = [kernel EXCEPT !.pdist2 = pdist2]
    /\ UNCHANGED <<network, args>>

\* a call that reads self.X and hands (self.X, Y) to the kernel
ReadCall(name, arg, val, Y) ==
    ModelCall(name, arg, Valued(val), X, alpha, pdist2_after(kernel.pdist2, read_X(X), Y))

\* points of the declared shape, fewer of them, and points of another width
PointChoices ==
    {args.points, Fill(<<2>> \o network.ndim_in, 1), Fill(<<2, network.ndim_in[1] + 1>>, 0)}

SetPoints ==
    \E p \in PointChoices :
      LET r == set_points(network, p)
      IN  ModelCall("set_points", p, IF IsErr(r) THEN r ELSE None,
                    IF IsErr(r) THEN X ELSE [kind |-> "value", val |-> r], alpha, kernel.pdist2)

\* feature-space arguments: the origin as one row, a vector, two rows, and
\* rows of another width
FeatureInputs ==
    LET d == network.ndim_out[1]
    IN  {Zeros(<<1, d>>), Fill(<<d>>, 1), Fill(<<2, d>>, 1), Fill(<<2, d + 1>>, 0)}

EvaluateKernelFun ==
    \E Y \in FeatureInputs :
      ReadCall("evaluate_kernel_fun", Y,
               evaluate_kernel_fun(kernel.sigma.val, AlphaT, read_X(X), Y), one_row_if_vector(Y))

\* the derivatives are asked for at rows of features
FeatureRows == {Fill(<<2, network.ndim_out[1]>>, 1)}

GetKernelFunGrad ==
    \E Y \in FeatureRows :
      ReadCall("get_kernel_fun_grad", Y, get_kernel_fun_grad(kernel.sigma.val, AlphaT, read_X(X), Y), Y)

GetKernelFunHess ==
    \E Y \in FeatureRows :
      ReadCall("get_kernel_fun_hess", Y, get_kernel_fun_hess(kernel.sigma.val, AlphaT, read_X(X), Y), Y)

GetKernelFunGradHess ==
    \E Y \in FeatureRows :
      ReadCall("get_kernel_fun_grad_hess", Y,
               get_kernel_fun_grad_hess(kernel.sigma.val, AlphaT, read_X(X), Y), Y)


\* self.X bound to a placeholder the host feeds args.points
Fed(v) == [kind |-> "fed", val |-> v]

\* score and linear_score return (score, points, data): the objective and the
\* two placeholders, here with what the host feeds them
Returned(v) ==
    Let(v, LAMBDA x : IF IsErr(x) THEN x ELSE [score |-> x, points |-> args.points, data |-> args.data])

Score ==
    \E lam \in {args.lam} :
      LET Xv == forward_tensor(network, args.points)
      IN  ModelCall("score", lam,
                    Returned(Valued(score(network, kernel.sigma.val, AlphaT, args.points, args.data, lam))),
                    Fed(Xv), alpha,
                    pdist2_after(kernel.pdist2, Xv, forward_tensor(network, args.data)))

LinearScore ==
    \E lam \in {args.lam} :
      LET Xv == set_points(network, args.points)
      IN  ModelCall("linear_score", lam,
                    Returned(Valued(linear_score(network, kernel.sigma.val, AlphaT, args.points, args.data, lam))),
                    IF IsErr(Xv) THEN X ELSE Fed(Xv), alpha,
                    pdist2_after(kernel.pdist2, Xv, forward_tensor(network, args.data)))

GetOptAlpha ==
    LET Xv == get_opt_alpha_points(network, args.points)
    IN  ModelCall("get_opt_alpha", None, get_opt_alpha(network, args.points, args.data),
                  IF IsErr(Xv) THEN X ELSE Fed(Xv), alpha, kernel.pdist2)

ScoreOriginal ==
    ReadCall("score_original", args.data,
             score_original(network, kernel.sigma, AlphaT, read_X(X), kernel.pdist2, args.data),
             forward_tensor(network, args.data))

KernelScore ==
    ReadCall("kernel_score", args.data,
             kernel_score(network, kernel.sigma, AlphaT, read_X(X), args.data),
             forward_tensor(network, args.data))

KernelFit ==
    \E lam \in Range(Lams) :
      /\ calls < MaxCalls
      /\ calls' = calls + 1
      /\ ret' = [op |-> "kernel_fit", arg |-> [data |-> args.data, lam |-> lam],
                 val |-> kernel_fit(network, kernel.sigma, alpha.n, X, args.data)]
      /\ alpha' = IF IsErr(ret'.val) THEN alpha ELSE ret'.val
      /\ kernel' = [kernel EXCEPT !.pdist2 =
                      pdist2_after(kernel.pdist2, read_X(X), forward_tensor(network, args.data))]
      /\ UNCHANGED <<network, X, args>>

\* a KernelNetMSD over the same kernel and network; every placeholder is fed
\* the batch
MSDV ==
    LET out == forward_tensor(network, args.data)
    IN  ModelCall("MSD_V", None,
                  MSD_V(network, kernel.sigma.val, args.data, args.data, args.data, args.data),
                  X, alpha, pdist2_after(kernel.pdist2, out, out))

\* test points: as many as the batch, one fewer, rows of another width
TestPoints ==
    LET d == network.ndim_out[1]
    IN  {Fill(<<network.batch_size, d>>, 0), Fill(<<network.batch_size - 1, d>>, 0),
         Fill(<<network.batch_size, d + 1>>, 0)}

CallFSSD ==
    \E points \in TestPoints :
      ModelCall("FSSD", points, FSSD(network, kernel.sigma.val, args.data, args.data, points),
                X, alpha, pdist2_after(kernel.pdist2, forward_tensor(network, args.data), points))

Next ==
    \/ SetPoints
    \/ EvaluateKernelFun
    \/ GetKernelFunGrad
    \/ GetKernelFunHess
    \/ GetKernelFunGradHess
    \/ Score
    \/ LinearScore
    \/ GetOptAlpha
    \/ ScoreOriginal
    \/ KernelScore
    \/ KernelFit
    \/ MSDV
    \/ CallFSSD

Spec == ModelInit /\ [][Next]_vars

\* ------------------------------------------- a model built with points

\* KernelNetModel(kernel, network, alpha, points): the constructor calls
\* set_points(points)
ReadyInit ==
    /\ network \in Networks
    /\ \E c \in 0..MaxSeed :
         /\ kernel = [sigma |-> SigmaOf(c), pdist2 |-> None]
         /\ alpha = [kind |-> "var", n |-> AlphaOf(c).shape[1], val |-> AlphaOf(c)]
         /\ args = [points |-> PointsFor(alpha.n, network.ndim_in, c),
                    data |-> Fill(<<network.batch_size>> \o network.ndim_in, c),
                    lam |-> Lams[(c % 2) + 1]]
    /\ X = [kind |-> "value", val |-> set_points(network, args.points)]
    /\ ret = None
    /\ calls = 0

\* the calls that go through the kernel and leave the basis points alone
ReadyNext ==
    \/ EvaluateKernelFun
    \/ GetKernelFunGrad
    \/ ScoreOriginal
    \/ KernelScore
    \/ MSDV

ReadySpec == ReadyInit /\ [][ReadyNext]_vars

\* ---------------------------------------------- the networks on their own

\* single layers: those of the model, a Linear layer with weights of both
\* signs, and ReLU layers whose pre-activations take both signs
Layers ==
    Networks \cup
    { LinearNetwork(<<2>>, <<2>>, 2, Matrix(<<<<1, 2>>, <<0, 0 - 1>>>>), Matrix(<<<<0, 1>>>>)),
      LinearReLUNetwork(<<2>>, <<2>>, 2, Matrix(<<<<1, 0>>, <<0, 1>>>>), Matrix(<<<<0 - 1, 0 - 1>>>>),
                        <<R0, R1>>),
      LinearReLUNetwork(<<2>>, <<2>>, 2, Matrix(<<<<1, 0>>, <<0, 1>>>>), Matrix(<<<<0 - 1, 0 - 1>>>>),
                        <<RInt(2), R1>>) }

\* the lists a caller hands to DeepNetwork: empty, one layer, two that fit, two
\* whose shapes do not, two of different batch sizes, a list holding an object
\* that is no Network, one holding None, a DeepNetwork as a layer, eleven layers
LayerLists ==
    LET id == LinearNetwork(<<2>>, <<2>>, 2, Matrix(<<<<1, 0>>, <<0, 1>>>>), Matrix(<<<<0, 0>>>>))
        id3 == LinearNetwork(<<2>>, <<2>>, 3, Matrix(<<<<1, 0>>, <<0, 1>>>>), Matrix(<<<<0, 0>>>>))
        sq == SquareNetwork(<<2>>, <<1>>, 2, Matrix(<<<<1, 2>>>>), Matrix(<<<<1>>>>))
        relu == LinearReLUNetwork(<<1>>, <<1>>, 2, Matrix(<<<<1>>>>), Matrix(<<<<0>>>>), <<R0, R1>>)
        other == [kind |-> "object", ndim_in |-> <<2>>, ndim_out |-> <<2>>, batch_size |-> 2, param |-> <<>>]
    IN  { <<>>, <<id>>, <<id, sq>>, <<sq, id>>, <<id, id3>>, <<id, other>>, <<id, None>>,
          <<DeepNetwork(<<id, sq>>), relu>>, [li \in 1..11 |-> id] }

NetworkInit ==
    /\ network \in Layers
    /\ args \in [layers : LayerLists]
    /\ kernel = None
    /\ alpha = None
    /\ X = NoX
    /\ ret = None
    /\ calls = 0

\* one call on the network or of a constructor; net2 is the network the caller
\* holds afterwards
NetworkCall(name, arg, val, net2) ==
    /\ calls < MaxCalls
    /\ calls' = calls + 1
    /\ ret' = [op |-> name, arg |-> arg, val |-> val]
    /\ network' = net2
    /\ UNCHANGED <<kernel, alpha, X, args>>

\* network = DeepNetwork(layers)
CallDeepNetwork ==
    NetworkCall("DeepNetwork", args.layers,
                Let(DeepNetwork(args.layers), LAMBDA r : IF IsErr(r) THEN r ELSE None),
                Let(DeepNetwork(args.layers), LAMBDA r : IF IsErr(r) THEN network ELSE r))

\* inputs of forward_tensor: three examples, one example, examples of another
\* width, one example of another width, a batch of batches
DataChoices(net) ==
    LET d == net.ndim_in[1]
    IN  {Fill(<<3, d>>, 0), Fill(<<d>>, 1), Fill(<<2, d + 1>>, 0), Fill(<<d + 1>>, 0), Fill(<<2, 2, d>>, 0)}

ForwardTensor ==
    \E data \in DataChoices(network) :
      NetworkCall("forward_tensor", data, Network_forward_tensor(network, data), network)

\* what the host feeds the batch placeholder of a derivative
Batches(net) ==
    IF net.ndim_in = <<1>> THEN {Matrix(<<<<0>>, <<2>>>>), Matrix(<<<<1>>, <<0 - 1>>>>)}
    ELSE {Matrix(<<<<0, 0>>, <<2, 2>>>>), Matrix(<<<<0, 2>>, <<1, 1>>>>)}

\* the derivatives are taken of single layers
GetGradData ==
    /\ network.kind # "Deep"
    /\ \E batch \in Batches(network) :
         NetworkCall("get_grad_data", batch, get_grad_data(network, batch), network)

GetSecData ==
    /\ network.kind # "Deep"
    /\ \E batch \in Batches(network) :
         NetworkCall("get_sec_data", batch, get_sec_data(network, batch), network)

NetworkNext ==
    \/ CallDeepNetwork
    \/ ForwardTensor
    \/ GetGradData
    \/ GetSecData

NetworkSpec == NetworkInit /\ [][NetworkNext]_vars

\* ------------------------------------- get_sec_data on any input shape

\* the longest input shape: channels, height, width
MaxRank == 3

\* the most coordinates of one example
MaxSize == 12

RECURSIVE ShapesOf(_)
\* the shapes of rank n with dimensions up to MaxDim + 1
ShapesOf(n) ==
    IF n = 0 THEN {<<>>}
    ELSE {Append(s, d) : s \in ShapesOf(n - 1), d \in 1..(MaxDim + 1)}

\* a Network of which only the shapes are known
Network(ndim_in, ndim_out, batch_size) ==
    [kind |-> "Network", ndim_in |-> ndim_in, ndim_out |-> ndim_out, batch_size |-> batch_size]

ShapeInit ==
    /\ \E r \in 1..MaxRank : \E s \in ShapesOf(r) : \E o \in 1..MaxDim : \E n \in 1..MaxRows :
         /\ np_prod(s) <= MaxSize
         /\ network = Network(s, <<o>>, n)
    /\ args = None
    /\ kernel = None
    /\ alpha = None
    /\ X = NoX
    /\ ret = None
    /\ calls = 0

GetSecDataShape == NetworkCall("get_sec_data", None, sec_stack(network), network)

ShapeNext == GetSecDataShape

ShapeSpec == ShapeInit /\ [][ShapeNext]_vars

\* ------------------------------------------------- claims on the kernel

\* the feature dimension of a kernel argument: the length of a rank-1 vector,
\* the second dimension of a matrix
FeatDim(T) == T.shape[Rank(T)]

\* C8: a kernel method called with X and Y of different feature dimensions
\* raises, and leaves no distance matrix behind.
C8_MismatchRaises ==
    (ret # None /\ FeatDim(args.X) # FeatDim(args.Y)) => (IsErr(ret.val) /\ kernel.pdist2 = None)

C8_Witness ==
    /\ ret # None
    /\ ret.op = "get_two_grad_cross_hess"
    /\ args.X.shape = <<2, 1>>
    /\ args.Y.shape = <<2, 2>>
    /\ ret.val = Err("AssertionError")

\* both raise, or both return tensors of one shape
SameOutcome(a, b) == (IsErr(a) <=> IsErr(b)) /\ (~IsErr(a) => a.shape = b.shape)

\* C9: a rank-1 X or Y of length d gives what the same vector reshaped to (1, d)
\* gives: the gram, get_grad and get_hess have the same shapes.
C9_RankOneIsOneRow ==
    ret # None =>
      LET sg == kernel.sigma.val
          X1 == AsRows(args.X)
          Y1 == AsRows(args.Y)
      IN  /\ ret.op = "get_gram_matrix" => SameOutcome(ret.val, get_gram_matrix(sg, X1, Y1))
          /\ ret.op = "get_grad" => SameOutcome(ret.val, get_grad(sg, X1, Y1))
          /\ ret.op = "get_hess" => SameOutcome(ret.val, get_hess(sg, X1, Y1))

\* C10: get_grad_hess returns get_grad's tensor and get_hess's tensor, and
\* raises only where one of the two raises.
C10_GradHessAgrees ==
    (ret # None /\ ret.op = "get_grad_hess") =>
      LET sg == kernel.sigma.val
          g == get_grad(sg, args.X, args.Y)
          h == get_hess(sg, args.X, args.Y)
      IN  IF IsErr(ret.val) THEN IsErr(g) \/ IsErr(h)
          ELSE ret.val.K1 = g /\ ret.val.K2 = h

C10_Witness ==
    /\ ret # None
    /\ ret.op = "get_grad_hess"
    /\ ~IsErr(ret.val)
    /\ args.X.shape = <<2, 2>>
    /\ args.Y.shape = <<2, 2>>
    /\ \E i \in IdxSet(ret.val.K1.shape) : ret.val.K1.at[i] # EZero
    /\ \E i \in IdxSet(ret.val.K2.shape) : i[3] # i[4] /\ ret.val.K2.at[i] # EZero

\* C11: get_two_grad_cross_hess returns K2 = get_grad, K1 = -K2,
\* K3 = -get_hess and the gram of get_gram_matrix, and raises only where one
\* of the three raises.
C11_TwoGradCrossHess ==
    (ret # None /\ ret.op = "get_two_grad_cross_hess") =>
      LET sg == kernel.sigma.val
          g == get_grad(sg, args.X, args.Y)
          h == get_hess(sg, args.X, args.Y)
          k == get_gram_matrix(sg, args.X, args.Y)
      IN  IF IsErr(ret.val) THEN IsErr(g) \/ IsErr(h) \/ IsErr(k)
          ELSE /\ ret.val.K2 = g
               /\ ret.val.K1 = TNeg(ret.val.K2)
               /\ ret.val.K3 = TNeg(h)
               /\ ret.val.gram = k

C11_Witness ==
    /\ ret # None
    /\ ret.op = "get_two_grad_cross_hess"
    /\ ~IsErr(ret.val)
    /\ args.X.shape = <<2, 2>>
    /\ args.Y.shape = <<2, 2>>
    /\ ret.val.K1 # ret.val.K2
    /\ \E i \in IdxSet(ret.val.K3.shape) : i[3] # i[4] /\ ret.val.K3.at[i] # EZero

\* C12: the kernel's sigma is positive.
C12_SigmaPositive == RPos(kernel.sigma.val)

\* -------------------------------------------------- claims on the model

Readers ==
    {"evaluate_kernel_fun", "get_kernel_fun_grad", "get_kernel_fun_hess", "get_kernel_fun_grad_hess",
     "score_original", "kernel_score", "kernel_fit"}

\* C1: a model built without points has no X; a call that reads X made while
\* there is none raises and leaves none; a set_points that returns leaves an X;
\* and once there is an X there always is one, and no reader raises for the
\* lack of it.
C1_ReadyAfterSetPoints ==
    [][/\ calls = 0 => X = NoX
       /\ (X = NoX /\ ret'.op \in Readers) => (IsErr(ret'.val) /\ X' = NoX)
       /\ (ret'.op = "set_points" /\ ~IsErr(ret'.val)) => X' # NoX
       /\ X # NoX => (X' # NoX /\ (ret'.op \in Readers => ret'.val # Err("AttributeError")))]_vars

C1_Witness ==
    /\ calls = 2
    /\ X # NoX
    /\ X.kind = "value"
    /\ ret.op = "get_kernel_fun_grad_hess"
    /\ ~IsErr(ret.val)

\* C2: a call other than set_points leaves the X that set_points stored.
C2_XOnlyBySetPoints ==
    [][(X # NoX /\ X.kind = "value" /\ ret'.op # "set_points") => X' = X]_vars

\* C3: linear_score on a model whose network is a SquareNetwork raises.
C3_LinearScoreRejectsSquare ==
    (ret # None /\ ret.op = "linear_score" /\ network.kind = "Square") => IsErr(ret.val)

\* C4: on a Linear or LinearReLU network the objective score returns is the
\* objective linear_score returns for the same points, batch, alpha and lam.
C4_ScoreIsLinearScore ==
    (ret # None /\ ret.op = "score" /\ network.kind \in {"Linear", "LinearReLU"}
       /\ ~IsErr(ret.val) /\ alpha.kind = "var") =>
      ret.val.score = linear_score(network, kernel.sigma.val, alpha.val, args.points, args.data, ret.arg)

\* C5: get_opt_alpha returns.
C5_GetOptAlphaReturns ==
    (ret # None /\ ret.op = "get_opt_alpha") => ~IsErr(ret.val)

\* C6: FSSD returns for every set of test points.
C6_FSSDReturns ==
    (ret # None /\ ret.op = "FSSD") => ~IsErr(ret.val)

\* the squared distance between row m of A and row i of B
SqDist(A, m, B, i) ==
    RSumOver(1..A.shape[2],
             [k \in 1..A.shape[2] |->
                RMul(RSub(EVal(A.at[<<m, k>>]), EVal(B.at[<<i, k>>])),
                     RSub(EVal(A.at[<<m, k>>]), EVal(B.at[<<i, k>>])))])

\* sum over m of al[m] * exp(-|A_m - B_i|^2 / (2 sigma)), for each row i of B
KernelSum(sigma, al, A, B) ==
    [shape |-> <<B.shape[1]>>,
     at |-> [i \in IdxSet(<<B.shape[1]>>) |->
               ESumOver(1..A.shape[1],
                        [m \in 1..A.shape[1] |->
                           EMul(al.at[<<m>>],
                                EExp(EConst(RMul(RDiv(RNeg(RHalf), sigma), SqDist(A, m, B, i[1])))))])]]

\* C7: with an X of npoint rows and a Y of X's width, evaluate_kernel_fun
\* returns one entry per row of Y (one for a vector Y), the sum over the basis
\* points m of alpha[m] * k(|x_m - y_i|^2).
C7_EvaluateIsKernelSum ==
    (ret # None /\ ret.op = "evaluate_kernel_fun" /\ alpha.kind = "var" /\ X # NoX) =>
      IF X.val.shape[1] = alpha.n /\ FeatDim(ret.arg) = FeatDim(X.val)
      THEN ret.val = KernelSum(kernel.sigma.val, alpha.val, X.val, AsRows(ret.arg))
      ELSE IsErr(ret.val)

\* the scenario: X = (0,0),(1,0),(0,1), sigma = 1, alpha = (1,1,1), Y = [[0,0]]
\* gives exp(0) + 2 exp(-1/2)
C7_Witness ==
    /\ ret # None
    /\ ret.op = "evaluate_kernel_fun"
    /\ X # NoX
    /\ X.val = Matrix(<<<<0, 0>>, <<1, 0>>, <<0, 1>>>>)
    /\ kernel.sigma.val = R1
    /\ alpha.kind = "var"
    /\ alpha.val = Vector(<<1, 1, 1>>)
    /\ ret.arg = Zeros(<<1, 2>>)
    /\ ret.val = [shape |-> <<1>>,
                  at |-> [i \in {<<1>>} |-> EAdd(EConst(R1), EScale(RInt(2), EExp(EConst(RNeg(RHalf)))))]]
    /\ kernel.pdist2 = Matrix(<<<<0>>, <<1>>, <<1>>>>)

\* ------------------------------------------------ claims on the networks

\* every element is a Network, adjacent layers fit, and the batch sizes are
\* the first layer's
Consistent(layers) ==
    /\ \A li \in 1..Len(layers) : IsNetwork(layers[li])
    /\ \A li \in 1..(Len(layers) - 1) : layers[li + 1].ndim_in = layers[li].ndim_out
    /\ \A li \in 1..Len(layers) : layers[li].batch_size = layers[1].batch_size

RECURSIVE LayerParams(_, _)
\* the parameters of the layers from layer li on, each under the layer's key
LayerParams(layers, li) ==
    IF li > Len(layers) THEN <<>>
    ELSE [k \in 1..Len(param(layers[li])) |->
            <<"layer" \o ToString(li) \o param(layers[li])[k][1], param(layers[li])[k][2]>>]
         \o LayerParams(layers, li + 1)

\* C14: a DeepNetwork's param holds every parameter of every layer once, under
\* pairwise distinct keys, by layer and then in the layer's own order.
C14_ParamByLayer ==
    network.kind = "Deep" =>
      /\ network.param = LayerParams(network.layers, 1)
      /\ \A j, k \in 1..Len(network.param) : j # k => network.param[j][1] # network.param[k][1]

C14_Witness ==
    /\ network.kind = "Deep"
    /\ network.nlayer = 11
    /\ Len(network.param) = 22
    /\ network.param[1][1] = "layer1W"
    /\ network.param[22][1] = "layer11b"

\* C15: forward_tensor raises NameError on an input that is neither one
\* example nor a batch of examples of shape ndim_in; one example gives one
\* output, a batch of n examples n rows.
C15_ForwardChecksShape ==
    (ret # None /\ ret.op = "forward_tensor") =>
      IF ret.arg.shape = network.ndim_in
      THEN ~IsErr(ret.val) /\ ret.val.shape = network.ndim_out
      ELSE IF Rank(ret.arg) > 0 /\ Tail(ret.arg.shape) = network.ndim_in
      THEN ~IsErr(ret.val) /\ ret.val.shape = <<ret.arg.shape[1]>> \o network.ndim_out
      ELSE ret.val = Err("NameError")

C15_Witness ==
    /\ ret # None
    /\ ret.op = "forward_tensor"
    /\ network.kind = "Deep"
    /\ ret.arg.shape = <<2, network.ndim_in[1] + 1>>
    /\ ret.val = Err("NameError")

\* the batch with h added to coordinate i of example j
Shift(batch, j, i, h) == [batch EXCEPT !.at[<<j, i>>] = EAdd(@, EInt(h))]

\* the second difference of output o of example j in input coordinate i, which
\* is the second derivative where the output is a polynomial of degree two
SecondDifference(net, batch, o, j, i) ==
    LET f(h) == EVal(forward_tensor(net, Shift(batch, j, i, h)).at[<<j, o>>])
    IN  RAdd(RSub(f(1), RMul(RInt(2), f(0))), f(0 - 1))

\* C16 as stated: get_sec_data's tensor has shape
\* (ndim_out, batch_size) + ndim_in + ndim_in.
C16_SecDataIsHessian ==
    (ret # None /\ ret.op = "get_sec_data") =>
      ret.val.sec.shape = <<network.ndim_out[1], network.batch_size>> \o network.ndim_in \o network.ndim_in

\* C16: get_sec_data's tensor has shape (ndim_out, batch_size) + ndim_in, and
\* for a Linear or Square layer entry [o, j, i] is the second derivative of
\* output o of example j taken twice in input coordinate i.
C16_SecDataIsDiagonal ==
    (ret # None /\ ret.op = "get_sec_data") =>
      /\ ret.val.sec.shape = <<network.ndim_out[1], network.batch_size>> \o network.ndim_in
      /\ network.kind \in {"Linear", "Square"} =>
           \A idx \in IdxSet(ret.val.sec.shape) :
             ret.val.sec.at[idx] = EConst(SecondDifference(network, ret.arg, idx[1], idx[2], idx[3]))

C16_Witness ==
    /\ ret # None
    /\ ret.op = "get_sec_data"
    /\ network.kind = "Square"
    /\ ret.val.sec.shape = <<1, 2, 2>>
    /\ ret.val.sec.at[<<1, 1, 1>>] = EInt(2)
    /\ ret.val.sec.at[<<1, 1, 2>>] = EInt(8)

\* C17: get_grad_data of a LinearReLU layer gives W for an example whose
\* pre-activations are all positive, g0 * W for one whose pre-activations are
\* all negative, and wherever the pre-activation p is not zero the slope of
\* max(g1 * p, g0 * p), which is (output / p) * W.
C17_GradDataIsSlope ==
    (ret # None /\ ret.op = "get_grad_data" /\ network.kind = "LinearReLU") =>
      LET p == pre_activation(network, ret.arg)
          y == ret.val.output
          outs == 1..network.ndim_out[1]
      IN  \A idx \in IdxSet(ret.val.grad.shape) :
            LET w == network.W.at[<<idx[1], idx[3]>>]
                pv == EVal(p.at[<<idx[2], idx[1]>>])
            IN  /\ (\A o \in outs : RPos(EVal(p.at[<<idx[2], o>>]))) => ret.val.grad.at[idx] = w
                /\ (\A o \in outs : RPos(RNeg(EVal(p.at[<<idx[2], o>>])))) =>
                     ret.val.grad.at[idx] = EScale(network.lin_grads[1], w)
                /\ pv # R0 =>
                     ret.val.grad.at[idx] = EScale(RDiv(EVal(y.at[<<idx[2], idx[1]>>]), pv), w)

\* C18: get_sec_data of a LinearNetwork gives zeros of shape
\* (ndim_out[0], batch_size) + ndim_in.
C18_LinearSecDataIsZero ==
    (ret # None /\ ret.op = "get_sec_data" /\ network.kind = "Linear") =>
      ret.val.sec = Zeros(<<network.ndim_out[1], network.batch_size>> \o network.ndim_in)

C18_Witness ==
    /\ ret # None
    /\ ret.op = "get_sec_data"
    /\ network.kind = "Linear"
    /\ network.W = Matrix(<<<<1, 2>>, <<0, 0 - 1>>>>)
    /\ ret.arg = Matrix(<<<<0, 2>>, <<1, 1>>>>)
    /\ ret.val.grad.at[<<1, 1, 2>>] = EInt(2)
    /\ ret.val.sec.shape = <<2, 2, 2>>

\* --------------------------------------------- more claims on the model

\* C19: a kernel_fit that returns has assigned alpha = -sigma * solve(C, b)
\* with (b, C) the statistics of the mapped data and returned it, whatever lam
\* is; one that raises leaves alpha; npoint, X, sigma and the network stay.
C19_KernelFitIgnoresLam ==
    [][ret'.op = "kernel_fit" =>
         /\ X' = X
         /\ network' = network
         /\ kernel'.sigma = kernel.sigma
         /\ alpha'.n = alpha.n
         /\ IF IsErr(ret'.val) THEN alpha' = alpha
            ELSE LET st == kernel_score_stats(network, kernel.sigma, X.val,
                                               forward_tensor(network, ret'.arg.data))
                 IN  /\ ret'.val = alpha'
                     /\ alpha' = [kind |-> "assign", n |-> alpha.n, scale |-> RNeg(kernel.sigma.val),
                                  C |-> st.C, b |-> st.b]]_vars

C19_Witness ==
    /\ ret # None
    /\ ret.op = "kernel_fit"
    /\ ret.arg.lam = R1
    /\ ~IsErr(ret.val)
    /\ alpha = ret.val
    /\ alpha.kind = "assign"
    /\ \E i \in IdxSet(alpha.C.shape) : i[1] # i[2] /\ alpha.C.at[i] # EZero

\* C20: score_original returns what it returns from a kernel that holds no
\* distance matrix or any other one, and leaves in the kernel the distances
\* between X and the mapped data of its own call.
C20_Pdist2OfThisCall ==
    [][ret'.op = "score_original" =>
         /\ \A stale \in {None, kernel.pdist2, Zeros(<<1, 1>>)} :
              ret'.val = score_original(network, kernel.sigma, alpha.val, X.val, stale, args.data)
         /\ ~IsErr(ret'.val) =>
              kernel'.pdist2 = get_pdist2(X.val, forward_tensor(network, args.data))]_vars

C20_Witness ==
    /\ calls = 2
    /\ ret.op = "score_original"
    /\ ~IsErr(ret.val)
    /\ kernel.pdist2 = get_pdist2(X.val, forward_tensor(network, args.data))
    /\ kernel.pdist2 # Zeros(kernel.pdist2.shape)

\* C21: entry [o, b, c] of get_sec_data's result is the derivative, in
\* coordinate c of example b, of the batch-summed first derivative of output o
\* in that same coordinate c, for input shapes of every rank.
C21_SecDataIndexRoundTrip ==
    (ret # None /\ ret.op = "get_sec_data" /\ network.kind = "Network") =>
        /\ ret.val.shape = <<network.ndim_out[1], network.batch_size>> \o network.ndim_in
        /\ \A j \in IdxSet(ret.val.shape) :
             LET c == SubSeq(j, 3, Len(j))
             IN  ret.val.at[j] = [of |-> [out |-> j[1], x |-> c], b |-> j[2], x |-> c]
        /\ \A i \in raveled_index(network) : \A b \in 1..network.batch_size :
             /\ gather_index(network, i)[b] = <<b - 1>> \o RowMajorIndex(i, network.ndim_in)
             /\ RowMajorOffset(unravel_index(i, network.ndim_in), network.ndim_in) = i

C21_Witness ==
    /\ ret # None
    /\ ret.op = "get_sec_data"
    /\ network.kind = "Network"
    /\ network.ndim_in = <<2, 3, 2>>
    /\ network.batch_size = 2
    /\ network.ndim_out = <<2>>
    /\ ret.val.at[<<2, 1, 2, 3, 1>>] = [of |-> [out |-> 2, x |-> <<2, 3, 1>>], b |-> 1, x |-> <<2, 3, 1>>]

\* C22: on a model with points, kernel_score(data) returns the value that
\* score_original(data) returns, for a sigma given as an int or as a float.
C22_KernelScoreIsScoreOriginal ==
    (ret # None /\ ret.op = "kernel_score" /\ ~IsErr(ret.val)) =>
        ret.val = score_original(network, kernel.sigma, alpha.val, X.val, kernel.pdist2, args.data)

=============================================================================
